---- MODULE Spec2Model ----
(***************************************************************************)
(* qotdd: a quote-of-the-day TCP responder with a per-IP rate limiter.     *)
(*                                                                         *)
(* The specifications developed from src/src/main.rs:                      *)
(*   SpecLimits  the RateLimits value driven directly through accept()     *)
(*               and lower(), the way the unit test test::ratelimit does;  *)
(*   Spec        the service loop of main(): select! over tcp_loop() and   *)
(*               the 60 s interval, with the connection handler's await    *)
(*               points as the places where the loop can be suspended;     *)
(*   SpecNoFailure  the same loop in runs where no I/O operation fails;    *)
(*   SpecFairTimer  SpecNoFailure with a timer that keeps firing.          *)
(***************************************************************************)
EXTENDS Integers, Sequences, FiniteSets

(***************************************************************************)
(* Bounds of the model and program constants.                              *)
(***************************************************************************)
\* SpecLimits: total number of accept(watch) calls in one run.
MaxCalls == 31
\* SpecLimits: accept() is not called for another address than watch once
\* the counter of that address reached this.
MaxOther == 11
\* SpecLimits: total number of lower() calls in one run.
MaxDecays == 2
\* Spec: accept() is not called for an address whose counter reached this.
MaxCount == 11
\* Spec: number of interval ticks that may be due and not yet consumed.
MaxDue == 2
\* Spec: hist.idle stops counting the ticks since the last connection of
\* `watch` when it reached this.
MaxIdle == 2
\* Spec: a write that the kernel takes only partly stops within the first
\* MaxPartial bytes of the buffer (a longer write is taken whole).
MaxPartial == 2

\* `old < 10` in RateLimits::accept.
Threshold == 10
\* `v.saturating_sub(10)` in RateLimits::lower.
DecayAmount == 10

\* The peers of the model: IpAddr values and source ports.
IpAddrs == {"127.0.0.1", "10.0.0.7"}
Ports == {40001, 40002}
Peers == [ip : IpAddrs, port : Ports]

VARIABLES
    ips,      \* RateLimits.ips : HashMap<IpAddr, usize>
    call,     \* SpecLimits: the last call made on the limiter and its result
    calls,    \* SpecLimits: accept(watch) calls, one count per decay period
    ndecay,   \* SpecLimits: number of lower() calls so far
    watch,    \* SpecLimits: the address whose call history is recorded
    pc,       \* Spec: where main()/tcp_loop() is suspended
    conn,     \* Spec: the connection of the current or last tcp_loop() call
    nopen,    \* Spec: accepted sockets the process holds open
    due,      \* Spec: ticks of `reset` that are due
    last,     \* Spec: what the last step of the loop was
    hist      \* Spec: what happened to the connections of `watch`

vars == <<ips, call, calls, ndecay, watch, pc, conn, nopen, due, last, hist>>

(***************************************************************************)
(* RateLimits (main.rs 76-95).  A HashMap is a function whose domain is    *)
(* the set of keys present.                                                *)
(***************************************************************************)
\* RateLimits::default(): an empty map.
EmptyMap == [k \in {} |-> 0]

\* Mutant: HashMap::insert(addr, 0) in place of entry(addr).or_default().
or_default_reset(m, addr) ==
    [k \in DOMAIN m \cup {addr} |-> IF k = addr THEN 0 ELSE m[k]]

\* HashMap::entry(addr).or_default(): insert 0 when the key is absent.
or_default(m, addr) ==
    IF addr \in DOMAIN m THEN m
    ELSE [k \in DOMAIN m \cup {addr} |-> IF k = addr THEN 0 ELSE m[k]]

\* Mutant: the comparison written `old <= 10`.
accept_le(m, addr) ==
    LET e == or_default(m, addr)
        old == e[addr]
    IN  [ips |-> [e EXCEPT ![addr] = old + 1], ret |-> old <= Threshold]

\* Mutant: the counter is incremented only when the call is admitted.
accept_count_admitted(m, addr) ==
    LET e == or_default(m, addr)
        old == e[addr]
    IN  [ips |-> [e EXCEPT ![addr] = IF old < Threshold THEN old + 1 ELSE old],
         ret |-> old < Threshold]

\* Mutant: the counter is incremented by two.
accept_twice(m, addr) ==
    LET e == or_default(m, addr)
        old == e[addr]
    IN  [ips |-> [e EXCEPT ![addr] = old + 2], ret |-> old < Threshold]

\* Mutant: the call increments the counter of every tracked address.
accept_all(m, addr) ==
    LET e == or_default(m, addr)
        old == e[addr]
    IN  [ips |-> [k \in DOMAIN e |-> e[k] + 1], ret |-> old < Threshold]

\* Mutant: the counter is read but not incremented.
accept_read_only(m, addr) ==
    LET e == or_default(m, addr)
        old == e[addr]
    IN  [ips |-> e, ret |-> old < Threshold]

\* RateLimits::accept: the map after the call and the value returned.
accept(m, addr) ==
    LET e == or_default(m, addr)
        old == e[addr]
    IN  [ips |-> [e EXCEPT ![addr] = old + 1], ret |-> old < Threshold]

\* usize::saturating_sub.
saturating_sub(v, d) == IF v >= d THEN v - d ELSE 0

\* HashMap::retain(|_, v| *v > 0).
retain(m) == [k \in {x \in DOMAIN m : m[x] > 0} |-> m[k]]

\* Mutant: the retain step is missing, entries with counter 0 stay.
lower_no_retain(m) == [k \in DOMAIN m |-> saturating_sub(m[k], DecayAmount)]

\* Mutant: every entry is removed, whatever its counter.
lower_clear(m) == EmptyMap

\* Mutant: the retain step written `*v > 1`.
lower_retain_gt_one(m) ==
    LET s == [k \in DOMAIN m |-> saturating_sub(m[k], DecayAmount)]
    IN  [k \in {x \in DOMAIN s : s[x] > 1} |-> s[k]]

\* RateLimits::lower.
lower(m) == retain([k \in DOMAIN m |-> saturating_sub(m[k], DecayAmount)])

\* The counter of an address: its entry, 0 when it has none.
Count(m, addr) == IF addr \in DOMAIN m THEN m[addr] ELSE 0

Max(a, b) == IF a >= b THEN a ELSE b

(***************************************************************************)
(* SpecLimits: accept() and lower() called in any order on one RateLimits  *)
(* (test::ratelimit, main.rs 103-123, generalised to every call sequence). *)
(***************************************************************************)
NoCall == [op |-> "none", addr |-> "-", ret |-> FALSE]
NoConn == [state |-> "none"]

\* The history of the connections of `watch` in the service loop.
\*   seen      connections accepted since the last lower() (or the start)
\*   admitted  those of them that limits.accept() admitted
\*   full      those of them that were sent a whole line
\*   ports     the source ports of the admitted ones
\*   stopc     the counter of `watch` after its last connection
\*   idle      lower() calls since that connection, counted up to MaxIdle
NoHist ==
    [seen |-> 0, admitted |-> 0, full |-> 0, ports |-> {}, stopc |-> 0,
     idle |-> 0]

InitLimits ==
    /\ ips = EmptyMap
    /\ call = NoCall
    /\ watch \in IpAddrs
    /\ calls = <<0>>
    /\ ndecay = 0
    /\ pc = "test"
    /\ conn = NoConn
    /\ nopen = 0
    /\ due = 0
    /\ last = "none"
    /\ hist = NoHist

RECURSIVE Sum(_)
Sum(s) == IF s = <<>> THEN 0 ELSE Head(s) + Sum(Tail(s))

\* limits.accept(ip)
CallAccept(addr) ==
    /\ pc = "test"
    /\ IF addr = watch THEN Sum(calls) < MaxCalls
                       ELSE Count(ips, addr) < MaxOther
    /\ LET r == accept(ips, addr)
       IN  /\ ips' = r.ips
           /\ call' = [op |-> "accept", addr |-> addr, ret |-> r.ret]
    /\ calls' = IF addr = watch
                THEN [calls EXCEPT ![Len(calls)] = @ + 1]
                ELSE calls
    /\ UNCHANGED <<ndecay, watch, pc, conn, nopen, due, last, hist>>

\* limits.lower()
CallLower ==
    /\ pc = "test"
    /\ ndecay < MaxDecays
    /\ ips' = lower(ips)
    /\ call' = [op |-> "lower", addr |-> "-", ret |-> FALSE]
    /\ calls' = Append(calls, 0)
    /\ ndecay' = ndecay + 1
    /\ UNCHANGED <<watch, pc, conn, nopen, due, last, hist>>

NextLimits ==
    \/ \E addr \in IpAddrs : CallAccept(addr)
    \/ CallLower

SpecLimits == InitLimits /\ [][NextLimits]_vars
(***************************************************************************)
(* Spec: the service loop (main.rs 39-72).                                 *)
(*                                                                         *)
(* main() runs on a current-thread runtime and loops over                  *)
(*     select! { tcp_loop(..) => result?, reset.tick() => limits.lower() } *)
(* Every iteration creates a fresh tcp_loop() future.  select! polls both  *)
(* branches; the branch that completes first runs its handler and the      *)
(* other future is dropped.  A tcp_loop() future that is suspended at one  *)
(* of its await points when the tick completes is therefore dropped there, *)
(* and its local `conn` with it (dropping a TcpStream closes the socket).  *)
(*                                                                         *)
(* pc is the await point the loop is suspended at:                         *)
(*   "select"       listener.accept() pending (line 56)                    *)
(*   "write_quote"  conn.write_all(quote.as_bytes()) pending (line 65)     *)
(*   "write_nl"     conn.write_all(b"\n") pending (line 68)                *)
(*   "exited"       main() returned the error of `result?` (line 46)       *)
(* conn.shutdown() on a TcpStream is one shutdown(2) call and completes    *)
(* when first polled, so lines 59 and 70 are not places to be suspended.   *)
(***************************************************************************)
\* The quotes array (main.rs 23-27), as bytes.
quotes ==
    << \* "Quickness is the essence of the war. ~ Sun Tsu"
       << 81, 117, 105, 99, 107, 110, 101, 115, 115, 32, 105, 115, 32, 116,
          104, 101, 32, 101, 115, 115, 101, 110, 99, 101, 32, 111, 102, 32,
          116, 104, 101, 32, 119, 97, 114, 46, 32, 126, 32, 83, 117, 110, 32,
          84, 115, 117 >>,
       \* "Pretend inferiority and encourage his arrogance. ~ Sun Tsu"
       << 80, 114, 101, 116, 101, 110, 100, 32, 105, 110, 102, 101, 114, 105,
          111, 114, 105, 116, 121, 32, 97, 110, 100, 32, 101, 110, 99, 111,
          117, 114, 97, 103, 101, 32, 104, 105, 115, 32, 97, 114, 114, 111,
          103, 97, 110, 99, 101, 46, 32, 126, 32, 83, 117, 110, 32, 84, 115,
          117 >>,
       \* "meow. ~ wffl"
       << 109, 101, 111, 119, 46, 32, 126, 32, 119, 102, 102, 108 >> >>

\* b"\n"
Newline == <<10>>

\* Mutant: the socket of a dropped TcpStream stays open.
close_leak(n) == n

\* Drop of the TcpStream `conn`: the socket is closed.
close(n) == n - 1

\* The record of an accepted connection.
\*   state   "open", "shutdown" (shut down by the handler, then closed) or
\*           "dropped" (closed by the drop alone)
\*   sent    the bytes the server wrote to it
\*   result  of the tcp_loop() call: "pending", "ok", "err", or "cancelled"
\*           when the future was dropped by select!
Accepted(peer, admitted, q) ==
    [state |-> "open", peer |-> peer, admitted |-> admitted, quote |-> q,
     sent |-> <<>>, result |-> "pending"]

\* conn.shutdown().await?; Ok(()) and the drop of conn at the return.
Shutdown(c, ok) ==
    [c EXCEPT !.state = IF ok THEN "shutdown" ELSE "dropped",
              !.result = IF ok THEN "ok" ELSE "err"]

\* Mutant: the limiter is keyed by the whole SocketAddr, port included.
ip_with_port(peer) ==
    peer.ip \o (IF peer.port = 40001 THEN ":40001" ELSE ":other")

\* peer.ip() (line 58): the key the limiter is asked about.
ip(peer) == peer.ip

Min(a, b) == IF a <= b THEN a ELSE b

\* hist after a connection of `peer` went through limits.accept(), which
\* returned `admitted` and left the counter of the peer's address at c.
HistAccept(h, peer, admitted, c) ==
    IF peer.ip # watch THEN h
    ELSE [h EXCEPT !.seen = @ + 1,
                   !.admitted = IF admitted THEN @ + 1 ELSE @,
                   !.ports = IF admitted THEN @ \cup {peer.port} ELSE @,
                   !.stopc = c,
                   !.idle = 0]

\* hist after connection c was written to for the last time.
HistFull(h, c) ==
    IF c.peer.ip = watch /\ c.sent = quotes[c.quote] \o Newline
    THEN [h EXCEPT !.full = @ + 1]
    ELSE h

\* hist after limits.lower().
HistLower(h) ==
    [h EXCEPT !.seen = 0, !.admitted = 0, !.full = 0, !.ports = {},
              !.idle = IF h.stopc = 0 THEN 0 ELSE Min(@ + 1, MaxIdle)]

Init ==
    /\ ips = EmptyMap
    /\ call = NoCall
    /\ watch \in IpAddrs
    /\ calls = <<0>>
    /\ ndecay = 0
    /\ pc = "select"
    /\ conn = NoConn
    /\ nopen = 0
    /\ due = 1     \* the first tick of an interval completes at once
    /\ last = "none"
    /\ hist = NoHist

\* Mutant: a rejection is returned as an error (bail!) after the shutdown.
AcceptReject_bail(peer, shut_ok) ==
    /\ pc = "select"
    /\ Count(ips, ip(peer)) < MaxCount
    /\ LET r == accept(ips, ip(peer))
       IN  /\ ~r.ret
           /\ ips' = r.ips
           /\ hist' = HistAccept(hist, peer, FALSE, Count(r.ips, peer.ip))
    /\ conn' = [Shutdown(Accepted(peer, FALSE, 0), shut_ok)
                   EXCEPT !.result = "err"]
    /\ nopen' = close(nopen + 1)
    /\ pc' = "exited"
    /\ last' = "error"
    /\ UNCHANGED <<call, calls, ndecay, watch, due>>

\* tcp_loop, lines 56-61: accept() completes with a connection of `peer`
\* that limits.accept() rejects; it is shut down without a write.
AcceptReject(peer, shut_ok) ==
    /\ pc = "select"
    /\ Count(ips, ip(peer)) < MaxCount
    /\ LET r == accept(ips, ip(peer))
       IN  /\ ~r.ret
           /\ ips' = r.ips
           /\ hist' = HistAccept(hist, peer, FALSE, Count(r.ips, peer.ip))
    /\ conn' = Shutdown(Accepted(peer, FALSE, 0), shut_ok)
    /\ nopen' = close(nopen + 1)
    /\ pc' = IF shut_ok THEN "select" ELSE "exited"
    /\ last' = IF shut_ok THEN "accept" ELSE "error"
    /\ UNCHANGED <<call, calls, ndecay, watch, due>>

\* tcp_loop, lines 56-65: accept() completes with a connection of `peer`
\* that limits.accept() admits; quote q is chosen and the write begins.
AcceptAdmit(peer, q) ==
    /\ pc = "select"
    /\ Count(ips, ip(peer)) < MaxCount
    /\ LET r == accept(ips, ip(peer))
       IN  /\ r.ret
           /\ ips' = r.ips
           /\ hist' = HistAccept(hist, peer, TRUE, Count(r.ips, peer.ip))
    /\ conn' = Accepted(peer, TRUE, q)
    /\ nopen' = nopen + 1
    /\ pc' = "write_quote"
    /\ last' = "accept"
    /\ UNCHANGED <<call, calls, ndecay, watch, due>>

\* Mutant: a failed accept() is logged and the loop goes on.
AcceptErr_continue ==
    /\ pc = "select"
    /\ pc' = "select"
    /\ conn' = NoConn
    /\ last' = "error"
    /\ UNCHANGED <<ips, call, calls, ndecay, watch, nopen, due, hist>>

\* tcp_loop, line 56: accept() fails; the error leaves main().
AcceptErr ==
    /\ pc = "select"
    /\ pc' = "exited"
    /\ conn' = NoConn
    /\ last' = "error"
    /\ UNCHANGED <<ips, call, calls, ndecay, watch, nopen, due, hist>>

\* tcp_loop, line 65: write_all() gets n more bytes of the quote written;
\* it stays pending until the whole quote is written.
WriteQuote ==
    /\ pc = "write_quote"
    /\ LET buf == quotes[conn.quote]
           off == Len(conn.sent)
       IN  \E n \in 1..(Len(buf) - off) :
               /\ off + n <= MaxPartial \/ off + n = Len(buf)
               /\ conn' = [conn EXCEPT
                              !.sent = @ \o SubSeq(buf, off + 1, off + n)]
               /\ pc' = IF off + n = Len(buf) THEN "write_nl"
                                              ELSE "write_quote"
    /\ last' = "write"
    /\ UNCHANGED <<ips, call, calls, ndecay, watch, nopen, due, hist>>

\* tcp_loop, lines 68-71: the newline is written and the connection is
\* shut down.
WriteNl(shut_ok) ==
    /\ pc = "write_nl"
    /\ conn' = Shutdown([conn EXCEPT !.sent = @ \o Newline], shut_ok)
    /\ nopen' = close(nopen)
    /\ pc' = IF shut_ok THEN "select" ELSE "exited"
    /\ last' = IF shut_ok THEN "write" ELSE "error"
    /\ hist' = HistFull(hist, conn')
    /\ UNCHANGED <<ips, call, calls, ndecay, watch, due>>

\* Mutant: the connection is kept (leaked) when a write fails.
WriteErr_leak ==
    /\ pc \in {"write_quote", "write_nl"}
    /\ conn' = [conn EXCEPT !.result = "err"]
    /\ pc' = "exited"
    /\ last' = "error"
    /\ UNCHANGED <<ips, call, calls, ndecay, watch, nopen, due, hist>>

\* tcp_loop, lines 65-68: a write fails; `?` returns the error, conn is
\* dropped, and the error leaves main().
WriteErr ==
    /\ pc \in {"write_quote", "write_nl"}
    /\ conn' = [conn EXCEPT !.state = "dropped", !.result = "err"]
    /\ nopen' = close(nopen)
    /\ pc' = "exited"
    /\ last' = "error"
    /\ UNCHANGED <<ips, call, calls, ndecay, watch, due, hist>>

\* Mutant: the handler is awaited to its end inside the accept branch, so
\* the tick is only taken between two connections.
Tick_between_connections ==
    /\ pc = "select"
    /\ due > 0
    /\ due' = due - 1
    /\ ips' = lower(ips)
    /\ pc' = "select"
    /\ last' = "tick"
    /\ hist' = HistLower(hist)
    /\ UNCHANGED <<call, calls, ndecay, watch, conn, nopen>>

\* Mutant: an interval that skips the ticks it missed
\* (MissedTickBehavior::Skip).
Tick_skip_missed ==
    /\ pc \in {"select", "write_quote", "write_nl"}
    /\ due > 0
    /\ due' = 0
    /\ ips' = lower(ips)
    /\ IF pc = "select"
       THEN UNCHANGED <<conn, nopen>>
       ELSE /\ conn' = [conn EXCEPT !.state = "dropped", !.result = "cancelled"]
            /\ nopen' = close(nopen)
    /\ pc' = "select"
    /\ last' = "tick"
    /\ hist' = HistLower(hist)
    /\ UNCHANGED <<call, calls, ndecay, watch>>

\* main, lines 44-50: reset.tick() completes.  The tcp_loop() future is
\* dropped where it is suspended, then limits.lower() runs.  One tick is
\* consumed; an interval keeps the ticks it missed and completes them one
\* after the other (tokio's default, MissedTickBehavior::Burst).
Tick ==
    /\ pc \in {"select", "write_quote", "write_nl"}
    /\ due > 0
    /\ due' = due - 1
    /\ ips' = lower(ips)
    /\ IF pc = "select"
       THEN UNCHANGED <<conn, nopen>>
       ELSE /\ conn' = [conn EXCEPT !.state = "dropped", !.result = "cancelled"]
            /\ nopen' = close(nopen)
    /\ pc' = "select"
    /\ last' = "tick"
    /\ hist' = HistLower(hist)
    /\ UNCHANGED <<call, calls, ndecay, watch>>

\* The 60 s period of `reset` (line 39) elapses once more.
TimePasses ==
    /\ pc # "exited"
    /\ due < MaxDue
    /\ due' = due + 1
    /\ last' = "time"
    /\ UNCHANGED <<ips, call, calls, ndecay, watch, pc, conn, nopen, hist>>

Next ==
    \/ \E peer \in Peers, shut_ok \in BOOLEAN : AcceptReject(peer, shut_ok)
    \/ \E peer \in Peers, q \in DOMAIN quotes : AcceptAdmit(peer, q)
    \/ AcceptErr
    \/ WriteQuote
    \/ \E shut_ok \in BOOLEAN : WriteNl(shut_ok)
    \/ WriteErr
    \/ Tick
    \/ TimePasses

Spec == Init /\ [][Next]_vars

\* The service loop when no accept, write or shutdown ever fails.
NextNoFailure ==
    \/ \E peer \in Peers : AcceptReject(peer, TRUE)
    \/ \E peer \in Peers, q \in DOMAIN quotes : AcceptAdmit(peer, q)
    \/ WriteQuote
    \/ WriteNl(TRUE)
    \/ Tick
    \/ TimePasses

SpecNoFailure == Init /\ [][NextNoFailure]_vars

\* The loop without I/O failures and with a timer that works: time goes on,
\* and a tick that is due is taken by select! (the runtime wakes the task
\* when the interval fires, and reset.tick() is then ready whenever it is
\* polled).  Nothing is assumed about the peers: a write may stay pending
\* for ever.
InitFairTimer == Init /\ watch = "127.0.0.1"

SpecFairTimer ==
    /\ InitFairTimer
    /\ [][NextNoFailure]_vars
    /\ WF_vars(Tick)
    /\ WF_vars(TimePasses)

(***************************************************************************)
(* Properties of RateLimits, checked under SpecLimits.                     *)
(***************************************************************************)
\* The last call was accept(watch).
AcceptedWatch == call.op = "accept" /\ call.addr = watch

\* Some other address than watch has been through accept() too.
OthersSeen == \E b \in IpAddrs \ {watch} : Count(ips, b) > 0

\* C1: on a limiter that started empty and has not been decayed, the k-th
\* accept(A) returns true exactly when k <= 10, whatever calls for other
\* addresses came in between.
FirstTenAdmitted ==
    (ndecay = 0 /\ AcceptedWatch) => (call.ret <=> calls[1] <= 10)

FirstTenAdmitted_Witness ==
    /\ ndecay = 0
    /\ AcceptedWatch
    /\ calls[1] = 12
    /\ ~call.ret
    /\ OthersSeen

\* C2: accept(A) returns true iff the counter of A before the call (0 when
\* A has no entry) is below 10, and the counter of A after the call is the
\* counter before plus 1, on admission and on rejection alike.
AcceptContract ==
    [][(\A a \in IpAddrs :
          (call'.op = "accept" /\ call'.addr = a) =>
              /\ call'.ret <=> (Count(ips, a) < 10)
              /\ a \in DOMAIN ips'
              /\ ips'[a] = Count(ips, a) + 1)]_vars

\* accept(watch) admitted an address that a decay had pruned.
AcceptContract_Witness ==
    /\ ndecay = 1
    /\ calls = <<5, 1>>
    /\ AcceptedWatch
    /\ call.ret
    /\ ips[watch] = 1

\* C3: lower() takes every counter c to max(c - 10, 0): none goes below 0,
\* an address with 1 <= c <= 10 loses its entry, and an address with c > 10
\* keeps its entry with counter c - 10.
LowerContract ==
    [][(call'.op = "lower") =>
          (\A a \in IpAddrs \cup DOMAIN ips \cup DOMAIN ips' :
              /\ Count(ips', a) = Max(Count(ips, a) - 10, 0)
              /\ Count(ips', a) >= 0
              /\ (a \in DOMAIN ips') <=> (Count(ips, a) > 10))]_vars

\* One lower() pruned watch (7 calls) and left another address with 11 - 10.
LowerContract_Witness ==
    /\ call.op = "lower"
    /\ calls = <<7, 0>>
    /\ watch \notin DOMAIN ips
    /\ \E b \in DOMAIN ips : ips[b] = 1

\* C4: after n >= 20 accept(A) calls on a fresh limiter and one lower(),
\* the next accept(A) returns false.
RejectedCallsCount ==
    (ndecay = 1 /\ calls[1] >= 20 /\ calls[2] = 1 /\ AcceptedWatch)
        => ~call.ret

RejectedCallsCount_Witness ==
    /\ ndecay = 1
    /\ calls = <<20, 1>>
    /\ AcceptedWatch
    /\ ~call.ret
    /\ ips[watch] = 11

\* The run of test::ratelimit: 20 accept(A), lower(), one accept(A), lower().
AfterSecondLower == ndecay = 2 /\ calls[1] = 20 /\ calls[2] = 1

\* C5 as stated: after 20 accept(A), lower(), one accept(A), the second
\* lower() leaves A with counter 0 and without an entry, and the next
\* accept(A) returns true.
SecondLowerPrunes ==
    AfterSecondLower =>
        /\ calls[3] = 0 => (Count(ips, watch) = 0 /\ watch \notin DOMAIN ips)
        /\ (calls[3] = 1 /\ AcceptedWatch) => call.ret

\* C5 as amended: the rejected accept(A) between the two lower() calls made
\* the counter 11, so the second lower() takes it from 11 to 1, A keeps its
\* entry, and the next accept(A) returns true.
SecondLowerLeavesOne ==
    /\ (ndecay = 1 /\ calls = <<20, 1>>) => Count(ips, watch) = 11
    /\ AfterSecondLower =>
        /\ calls[3] = 0 => (watch \in DOMAIN ips /\ ips[watch] = 1)
        /\ (calls[3] = 1 /\ AcceptedWatch) => (call.ret /\ ips[watch] = 2)

SecondLowerLeavesOne_Witness ==
    /\ AfterSecondLower
    /\ calls[3] = 1
    /\ AcceptedWatch
    /\ call.ret
    /\ ips[watch] = 2

(***************************************************************************)
(* Properties of the service loop, checked under Spec.                     *)
(***************************************************************************)
\* The tcp_loop() call that accepted conn is over.
Handled == conn.state # "none" /\ conn.result # "pending"

\* The line an admitted connection is to receive.
Line(q) == quotes[q] \o Newline

\* C6: a closed admitted connection was sent exactly one quote followed by
\* one newline: not nothing, not a prefix of the line, nothing more; and it
\* was shut down after that.
AdmittedGetsWholeLine ==
    (conn.state \in {"shutdown", "dropped"} /\ conn.admitted) =>
        /\ \E q \in DOMAIN quotes : conn.sent = Line(q)
        /\ conn.state = "shutdown"

\* C7 as stated: a rejected connection is sent nothing, is shut down, the
\* handler returns Ok and the loop goes on serving.
RejectionReturnsOk ==
    (Handled /\ ~conn.admitted) =>
        /\ conn.sent = <<>>
        /\ conn.state = "shutdown"
        /\ conn.result = "ok"
        /\ pc = "select"

\* C7 as amended: a rejected connection is sent nothing; when its shutdown
\* succeeds the handler returns Ok and the loop goes on serving, and when
\* its shutdown fails the handler returns that error, which ends main().
RejectionIsSilent ==
    (Handled /\ ~conn.admitted) =>
        /\ conn.sent = <<>>
        /\ conn.result \in {"ok", "err"}
        /\ conn.result = "ok" => (conn.state = "shutdown" /\ pc = "select")
        /\ conn.result = "err" => (conn.state = "dropped" /\ pc = "exited")

RejectionIsSilent_Witness ==
    /\ Handled
    /\ ~conn.admitted
    /\ conn.result = "ok"
    /\ conn.state = "shutdown"
    /\ pc = "select"
    /\ ips[conn.peer.ip] = 11

\* C8: while a connection is being handled (accepted, not yet closed) no
\* lower() takes effect on the limiter.
NoDecayDuringHandling ==
    [][(pc \in {"write_quote", "write_nl"}) => (ips' = ips)]_vars

\* The process holds at most one accepted connection, and none when the
\* next accept begins.
OneConnectionAtATime ==
    /\ nopen \in {0, 1}
    /\ pc = "select" => nopen = 0
    /\ nopen = 1 => (conn.state = "open" /\ pc \in {"write_quote", "write_nl"})

\* C9: at most one accepted connection is open at a time, and when the next
\* accept begins the last connection has been handled in full: decided,
\* written to if admitted, and closed by the handler.
FullyHandledBeforeNextAccept ==
    /\ OneConnectionAtATime
    /\ (pc = "select" /\ conn.state # "none") =>
           /\ conn.result = "ok"
           /\ conn.admitted => conn.sent = Line(conn.quote)

\* C10: when a tcp_loop() call that accepted a connection is over (rejected,
\* written in full, failed in a write or in the shutdown, or dropped), that
\* connection is closed and the process holds no connection.
HandlerClosesConnection ==
    /\ Handled => (conn.state \in {"shutdown", "dropped"} /\ nopen = 0)
    /\ (conn.state # "none" /\ pc \in {"select", "exited"}) => Handled

\* A write failed after one byte of the quote.
HandlerClosesConnection_Witness ==
    /\ pc = "exited"
    /\ conn.state = "dropped"
    /\ conn.result = "err"
    /\ Len(conn.sent) = 1
    /\ nopen = 0

\* A connection is being handled: accepted, admitted, a write pending.
Handling == pc \in {"write_quote", "write_nl"}

\* C11: a peer that stalls a write, even for ever, does not keep the decay
\* from running: when a tick is due while a write is pending, lower() is
\* called; and while that connection is being handled no other connection
\* is accepted.
DecayDespiteStalledPeer ==
    /\ (Handling /\ due > 0) ~> (last = "tick")
    /\ [][Handling => (last' # "accept" /\ conn'.peer = conn.peer)]_vars

\* A tick took effect while the quote was partly written.
DecayDespiteStalledPeer_Witness ==
    /\ last = "tick"
    /\ conn.state = "dropped"
    /\ conn.result = "cancelled"
    /\ Len(conn.sent) = 1

\* C12: a failed accept, write or shutdown takes main() out of its loop;
\* from then on nothing is accepted and lower() is not called: no step of
\* the loop follows.
IoFailureIsFatal ==
    [][/\ pc # "exited"
       /\ last' = "error" => pc' = "exited"
       /\ (conn'.state # "none" /\ conn'.result = "err") => pc' = "exited"
      ]_vars

\* The shutdown of a fully written connection failed.
IoFailureIsFatal_Witness ==
    /\ pc = "exited"
    /\ last = "error"
    /\ conn.state = "dropped"
    /\ conn.result = "err"
    /\ conn.sent = Line(conn.quote)
    /\ due > 0

\* `watch` had no entry when the first of the hist.seen connections came:
\* the service was just started, or lower() had pruned the address.
FreshPeriod == Count(ips, watch) = hist.seen

\* C13: connections of one address come in a row to a service that has no
\* entry for the address, as a freshly started one: each of the first 10
\* is admitted and its handling ends with the whole quote line sent, and
\* the 11th is rejected and sent nothing.
ElevenInARow ==
    [][/\ (FreshPeriod /\ Handling /\ conn.peer.ip = watch /\ ~Handling') =>
              /\ conn'.sent = Line(conn.quote)
              /\ conn'.state = "shutdown"
       /\ (FreshPeriod' /\ last' = "accept" /\ conn'.peer.ip = watch
               /\ hist'.seen = hist.seen + 1) =>
              /\ conn'.admitted <=> hist'.seen <= 10
              /\ ~conn'.admitted => conn'.sent = <<>>
      ]_vars

\* C14 as stated: every elapsed period is answered by exactly one lower(),
\* and two lower() calls never follow each other with no period elapsing
\* in between (no burst of catch-up ticks).
OneDecayPerPeriodNoBurst ==
    [][/\ (last' = "tick") => (due > 0 /\ due' = due - 1 /\ ips' = lower(ips))
       /\ (due' # due /\ last' # "tick") => (last' = "time" /\ due' = due + 1)
       /\ ~(last = "tick" /\ last' = "tick")
      ]_vars

\* C14, amended: every elapsed period is answered by exactly one lower();
\* a period that elapsed is only ever taken off `due` by a lower(), so no
\* tick is dropped, and ticks that are late by a period or more stay due
\* and are delivered one after the other.
OneDecayPerPeriod ==
    [][/\ (last' = "tick") => (due > 0 /\ due' = due - 1 /\ ips' = lower(ips))
       /\ (due' # due /\ last' # "tick") => (last' = "time" /\ due' = due + 1)
       /\ (last' = "tick" /\ due' > 0) => pc' = "select"
      ]_vars

\* lower() has run for a late tick and the next tick is already due: two
\* periods had elapsed, and the second lower() can follow at once.
OneDecayPerPeriod_Witness ==
    /\ last = "tick"
    /\ due > 0
    /\ pc = "select"

\* The counter of `watch` when the i-th lower() of the run is called, as the
\* history of calls gives it: what the previous lower() left plus the calls
\* of the i-th period.
RECURSIVE CounterAtTick(_)
CounterAtTick(i) ==
    IF i = 0 THEN 0
    ELSE Max(CounterAtTick(i - 1) - DecayAmount, 0) + calls[i]

\* `watch` had counter >= 20 at some lower() and made at least 10 calls in
\* every completed period since.
Abusive ==
    \E j \in 1..ndecay :
        /\ CounterAtTick(j) >= 20
        /\ \A i \in (j + 1)..ndecay : calls[i] >= 10

\* C15: once an address had counter >= 20 at a lower() and keeps making at
\* least 10 accept() calls in every period, each of its accept() calls
\* returns false.
AbusiveStaysRejected ==
    (AcceptedWatch /\ Abusive) => ~call.ret

\* accept() returned false in the third period, after 20 calls, a lower(),
\* 10 rejected calls and another lower().
AbusiveStaysRejected_Witness ==
    /\ AcceptedWatch
    /\ ndecay = 2
    /\ calls = <<20, 10, 1>>
    /\ ~call.ret
    /\ Count(ips, watch) = 11

Tracked(addr) == addr \in DOMAIN ips

\* The step accepts a connection of `watch`.
AcceptsWatch == last' = "accept" /\ conn'.peer.ip = watch /\ conn' # conn

\* C16: an address whose last accept() left counter c and that sent nothing
\* since has counter c - 10 * n after n lower() calls, and has no entry once
\* 10 * n >= c; an address with no entry is admitted by its next accept();
\* and with a fair timer an address that stops connecting ends up with no
\* entry, for good.
NotPunishedForever ==
    /\ [](hist.stopc > 0 =>
              IF DecayAmount * hist.idle >= hist.stopc
              THEN ~Tracked(watch)
              ELSE Count(ips, watch) = hist.stopc - DecayAmount * hist.idle)
    /\ [][(~Tracked(watch) /\ AcceptsWatch) => conn'.admitted]_vars
    /\ <>[][~AcceptsWatch]_vars => <>[]~Tracked(watch)

\* `watch` was left with counter 11, then lower() ran twice with no
\* connection of `watch` in between, and its entry is gone.
NotPunishedForever_Witness ==
    /\ hist.stopc = 11
    /\ hist.idle = 2
    /\ ~Tracked(watch)
    /\ last = "tick"

\* C17: the key of the limiter is the peer's IP address alone: the entries
\* are IP addresses, every connection of an address counts on its one
\* entry whatever its port, and the connections admitted from one address
\* between two lower() calls, over all its ports, are at most 10.
KeyIsIpOnly ==
    /\ DOMAIN ips \subseteq IpAddrs
    /\ Count(ips, watch) >= hist.seen
    /\ hist.admitted <= Threshold
    /\ Cardinality(hist.ports) <= hist.admitted

\* 10 connections of `watch` were admitted, from both ports, and an 11th
\* was rejected, all since the last lower().
KeyIsIpOnly_Witness ==
    /\ hist.admitted = 10
    /\ hist.ports = Ports
    /\ hist.seen = 11
    /\ last = "accept"
    /\ conn.peer.ip = watch
    /\ ~conn.admitted

\* What the last lower() left of the counter of `watch` (0 before the first
\* lower()): every connection accepted since has added one to it.
Carry == Count(ips, watch) - hist.seen

\* C18: of the connections of one address accepted since the last lower(),
\* those admitted are the first 10 - Carry, so never more than 10, whether
\* their handling was completed, failed or was interrupted; with at most
\* 10 in each of the k + 1 periods that k lower() calls delimit, a span
\* with k lower() calls has at most 10 * (k + 1).
AtMostTenPerPeriod ==
    /\ Carry >= 0
    /\ hist.admitted = Min(hist.seen, Max(Threshold - Carry, 0))
    /\ hist.admitted <= Threshold

\* After a lower() that left 1 on the counter, 9 connections were admitted,
\* which is all the period allows, and the handling of the 9th failed.
AtMostTenPerPeriod_Witness ==
    /\ Carry = 1
    /\ hist.seen = 9
    /\ hist.admitted = 9
    /\ hist.full = 8
    /\ conn.admitted
    /\ conn.result = "err"

\* C19: accept(a) leaves every other address as it was, tracked or not and
\* with the same counter, and answers from the counter of `a` alone;
\* lower() gives each address the counter that its own counter determines,
\* and keeps its entry exactly when that counter is not 0.
PerAddressIsolation ==
    [][/\ (call'.op = "accept") =>
              /\ \A b \in IpAddrs \ {call'.addr} :
                     /\ (b \in DOMAIN ips') <=> (b \in DOMAIN ips)
                     /\ Count(ips', b) = Count(ips, b)
              /\ call'.ret <=> Count(ips, call'.addr) < Threshold
       /\ (call'.op = "lower") =>
              \A b \in IpAddrs :
                  /\ Count(ips', b) = saturating_sub(Count(ips, b), DecayAmount)
                  /\ (b \in DOMAIN ips') <=> Count(ips, b) > DecayAmount
      ]_vars

\* `watch` was just rejected while the other address is tracked and still
\* below the threshold.
PerAddressIsolation_Witness ==
    /\ AcceptedWatch
    /\ ~call.ret
    /\ Count(ips, watch) > Threshold
    /\ \E b \in IpAddrs \ {watch} :
           /\ b \in DOMAIN ips
           /\ Count(ips, b) < Threshold

\* C20: every entry of the map has a counter of at least 1: accept() leaves
\* at least 1 on the entry it touches and lower() removes the entries it
\* brings to 0. So the tracked addresses are those with a counter that is
\* not 0.
NoZeroEntry ==
    /\ \A a \in DOMAIN ips : ips[a] >= 1
    /\ DOMAIN ips = {a \in IpAddrs : Count(ips, a) # 0}

\* lower() has just removed the entry of `watch`, brought to 0, and kept
\* the entry of the other address.
NoZeroEntry_Witness ==
    /\ call.op = "lower"
    /\ calls[Len(calls) - 1] \in 1..DecayAmount
    /\ watch \notin DOMAIN ips
    /\ \E b \in IpAddrs \ {watch} : b \in DOMAIN ips
====
